---- MODULE Spec2Model ----
(***************************************************************************)
(* A model of jbochi/github-recs (src/app.go): the startup load of the     *)
(* recommendation Model (ReadModel, init), and Model.Recommend as it is    *)
(* called by the "/" handler and by the tests.                             *)
(*                                                                         *)
(* Strings are sequences of one-character strings, so that the line        *)
(* reading of items.csv (bufio.Reader.ReadString, strings.TrimRight) is    *)
(* computed and not assumed.  Indices are 0-based as in the Go code; the   *)
(* slice repositories is a sequence, read at index i by At(s, i).          *)
(*                                                                         *)
(* The vector model (github.com/jbochi/facts/vectormodel) is              *)
(* a dependency outside this repository: NewVectorModel and vm.Recommend  *)
(* follow sections 4.2 and 4.3 of the specification, in exact rational    *)
(* arithmetic (a score is num/den with den > 0) instead of float64.        *)
(***************************************************************************)
EXTENDS Integers, Sequences, FiniteSets, TLC

\* ------------------------------------------------------------- bounds
MaxRows == 3
MaxFileLen == 6
MaxItems == 2
MaxN == 3

\* -------------------------------------------------- program constants
confidence == 3
\* regularization := 0.001, in thousandths
regularizationMilli == 1
\* the count the "/" handler asks for: model.Recommend(stars, 10)
homeN == 10

LF == "\n"
Letters == {"a", "b"}
Chars == Letters \cup {LF}

NoErr == "nil"
Nil == [isNil |-> TRUE]

SeqsUpTo(S, k) == UNION {[1..m -> S] : m \in 0..k}

At(s, i) == s[i + 1]

Min(a, b) == IF a < b THEN a ELSE b

RECURSIVE SumF(_, _)
SumF(f, S) ==
    IF S = {} THEN 0
    ELSE LET i == CHOOSE j \in S : TRUE IN f[i] + SumF(f, S \ {i})

\* ------------------------------------------------ reading items.csv
\* bufio.Reader.ReadString('\n') from offset pos (0-based) of buf: the bytes
\* up to and including the first delimiter; or, when the buffer ends first,
\* the bytes that are left together with io.EOF.
ReadString(buf, pos) ==
    LET ends == {j \in (pos + 1)..Len(buf) : buf[j] = LF}
    IN IF ends = {}
       THEN [line |-> SubSeq(buf, pos + 1, Len(buf)), err |-> "EOF", pos |-> Len(buf)]
       ELSE LET j == CHOOSE k \in ends : \A l \in ends : k <= l
            IN [line |-> SubSeq(buf, pos + 1, j), err |-> NoErr, pos |-> j]

\* strings.TrimRight(line, "\n"): line without its trailing newlines.
RECURSIVE TrimRight(_)
TrimRight(line) ==
    IF Len(line) > 0 /\ line[Len(line)] = LF
    THEN TrimRight(SubSeq(line, 1, Len(line) - 1))
    ELSE line

\* repositoryIDs[repo] = i on a Go map: a later write overwrites.
MapPutLast(ids, repo, i) ==
    [x \in (DOMAIN ids) \cup {repo} |-> IF x = repo THEN i ELSE ids[x]]

\* A loader that keeps the first index of an identifier.
MapPutFirst(ids, repo, i) ==
    [x \in (DOMAIN ids) \cup {repo} |-> IF x \in DOMAIN ids THEN ids[x] ELSE i]

MapPut(ids, repo, i) == MapPutLast(ids, repo, i)

EmptyMap == [x \in {} |-> 0]

\* The loop of ReadModel over the lines of items.csv: for i < rdr.Shape[0].
RECURSIVE ReadLines(_, _, _, _, _, _)
ReadLines(buf, nRows, i, pos, repositories, repositoryIDs) ==
    IF i >= nRows
    THEN [err |-> NoErr, repositories |-> repositories, repositoryIDs |-> repositoryIDs]
    ELSE LET r == ReadString(buf, pos)
         IN IF r.err # NoErr
            THEN [err |-> "Unable to read line of file",
                  repositories |-> repositories, repositoryIDs |-> repositoryIDs]
            ELSE LET repo == TrimRight(r.line)
                 IN ReadLines(buf, nRows, i + 1, r.pos,
                              [repositories EXCEPT ![i + 1] = repo],
                              MapPut(repositoryIDs, repo, i))

\* ------------------------------------------------- the vector model
\* vectormodel.NewVectorModel(docs, confidence, regularization): the factor
\* dimension is that of the documents; G = X^T X is computed once.
NewVectorModel(docs, c, lambdaMilli) ==
    LET idx == DOMAIN docs
        nFactors == IF idx = {} THEN 0 ELSE Len(docs[CHOOSE i \in idx : TRUE])
    IN IF nFactors <= 0 \/ c <= 0 \/ lambdaMilli <= 0
       THEN [vm |-> Nil, err |-> "ConfigError"]
       ELSE [vm |-> [isNil |-> FALSE,
                     docs |-> docs,
                     nDocs |-> Cardinality(idx),
                     nFactors |-> nFactors,
                     c |-> c,
                     lambdaMilli |-> lambdaMilli,
                     G |-> [g11 |-> SumF([i \in idx |-> docs[i][1] * docs[i][1]], idx),
                            g12 |-> SumF([i \in idx |-> docs[i][1] * docs[i][2]], idx),
                            g22 |-> SumF([i \in idx |-> docs[i][2] * docs[i][2]], idx)]],
             err |-> NoErr]

\* The preference vector u of a non-empty feedback set S, the solution of
\*   (G + c * Sum_{i in S} x_i x_i^T + lambda I) u = c * Sum_{i in S} x_i
\* by Cramer's rule, the system scaled by 1000: u = num / den, den > 0.
userVector(vm, S) ==
    LET d == vm.docs
        a11 == 1000 * vm.G.g11 + 1000 * vm.c * SumF([i \in S |-> d[i][1] * d[i][1]], S)
               + vm.lambdaMilli
        a12 == 1000 * vm.G.g12 + 1000 * vm.c * SumF([i \in S |-> d[i][1] * d[i][2]], S)
        a22 == 1000 * vm.G.g22 + 1000 * vm.c * SumF([i \in S |-> d[i][2] * d[i][2]], S)
               + vm.lambdaMilli
        b1 == 1000 * vm.c * SumF([i \in S |-> d[i][1]], S)
        b2 == 1000 * vm.c * SumF([i \in S |-> d[i][2]], S)
    IN [num |-> <<a22 * b1 - a12 * b2, a11 * b2 - a12 * b1>>,
        den |-> a11 * a22 - a12 * a12]

\* score_i = u . x_i
ScoreOf(vm, u, i) ==
    [num |-> u.num[1] * vm.docs[i][1] + u.num[2] * vm.docs[i][2], den |-> u.den]

\* The order of the ranking: the higher score first and, the scores equal,
\* the lower index first.  The scores of one request share their denominator.
BeforeTieBreak(s, t) ==
    \/ s.Score.num > t.Score.num
    \/ s.Score.num = t.Score.num /\ s.DocumentID < t.DocumentID

\* A ranking with no tie-break: of two equal scores the one met first stays ahead.
BeforeNoTieBreak(s, t) == s.Score.num > t.Score.num

Before(s, t) == BeforeTieBreak(s, t)

\* e put into the ordered selection sel, which keeps at most n entries.
Offer(sel, e, n) ==
    LET k == Cardinality({j \in 1..Len(sel) : ~ Before(e, sel[j])})
        all == SubSeq(sel, 1, k) \o <<e>> \o SubSeq(sel, k + 1, Len(sel))
    IN SubSeq(all, 1, Min(n, Len(all)))

\* The documents met in the order ord, those of seenDocs skipped.
RECURSIVE Select(_, _, _, _, _, _, _)
Select(vm, u, seenDocs, n, ord, k, sel) ==
    IF k > Len(ord) THEN sel
    ELSE LET i == ord[k]
         IN Select(vm, u, seenDocs, n, ord, k + 1,
                   IF i \in seenDocs THEN sel
                   ELSE Offer(sel, [DocumentID |-> i, Score |-> ScoreOf(vm, u, i)], n))

\* vm.Recommend with the feedback set looked at before n.
VmRecommendFeedbackFirst(vm, seenDocs, n, ord) ==
    IF seenDocs \cap (DOMAIN vm.docs) = {}
    THEN [scores |-> <<>>, err |-> "no usable feedback"]
    ELSE [scores |-> Select(vm, userVector(vm, seenDocs \cap (DOMAIN vm.docs)),
                            seenDocs, n, ord, 1, <<>>),
          err |-> NoErr]

\* vm.Recommend(&seenDocs, n); ord is the order in which the documents are met.
\* n <= 0 yields the empty list; an empty feedback set is reported as a
\* recoverable error, the only policy that leaves the length of every
\* successful result at min(n, N - |S|).
VmRecommend(vm, seenDocs, n, ord) ==
    IF n <= 0 THEN [scores |-> <<>>, err |-> NoErr]
    ELSE IF seenDocs \cap (DOMAIN vm.docs) = {}
    THEN [scores |-> <<>>, err |-> "no usable feedback"]
    ELSE [scores |-> Select(vm, userVector(vm, seenDocs \cap (DOMAIN vm.docs)),
                            seenDocs, n, ord, 1, <<>>),
          err |-> NoErr]

\* ------------------------------------------------------- ReadModel
\* docs[i] = data[i*nFactors : (i+1)*nFactors]
\* The rows cut without the stride: row i begins at element i of the data.
DocsOfNoStride(data, nRepositories, nFactors) ==
    [i \in 0..(nRepositories - 1) |-> SubSeq(data, i + 1, i + nFactors)]

DocsOf(data, nRepositories, nFactors) ==
    [i \in 0..(nRepositories - 1) |-> SubSeq(data, i * nFactors + 1, (i + 1) * nFactors)]

ReadModel(npyFile, csvFile) ==
    IF npyFile.status = "missing"
    THEN [m |-> Nil, err |-> "Unable to read data"]
    ELSE IF npyFile.status = "corrupt"
    THEN [m |-> Nil, err |-> "Unable to parse data"]
    ELSE LET nRepositories == npyFile.Shape[1]
             nFactors == npyFile.Shape[2]
             v == NewVectorModel(DocsOf(npyFile.data, nRepositories, nFactors),
                                 confidence, regularizationMilli)
         IN IF v.err # NoErr
            THEN [m |-> Nil, err |-> v.err]
            ELSE IF csvFile.missing
            THEN [m |-> Nil, err |-> "Unable to open items.csv"]
            ELSE LET r == ReadLines(csvFile.bytes, nRepositories, 0, 0,
                                    [j \in 1..nRepositories |-> <<>>], EmptyMap)
                 IN IF r.err # NoErr
                    THEN [m |-> Nil, err |-> r.err]
                    ELSE [m |-> [isNil |-> FALSE,
                                 vm |-> v.vm,
                                 repositories |-> r.repositories,
                                 repositoryIDs |-> r.repositoryIDs],
                          err |-> NoErr]

\* ------------------------------------------------- Model.Recommend
\* seenDocs after the loop over items: an identifier the map does not hold
\* is skipped.
RECURSIVE ResolveLoop(_, _)
ResolveLoop(repositoryIDs, items) ==
    IF items = <<>> THEN {}
    ELSE LET repo == items[Len(items)]
             rest == ResolveLoop(repositoryIDs, SubSeq(items, 1, Len(items) - 1))
         IN IF repo \in DOMAIN repositoryIDs
            THEN rest \cup {repositoryIDs[repo]}
            ELSE rest

\* The loop with seenDocs assigned anew for each item (seenDocs = map[int]bool{repoID: true}):
\* only the last resolved identifier stays.
RECURSIVE ResolveSeenLastOnly(_, _)
ResolveSeenLastOnly(repositoryIDs, items) ==
    IF items = <<>> THEN {}
    ELSE LET repo == items[Len(items)]
         IN IF repo \in DOMAIN repositoryIDs
            THEN {repositoryIDs[repo]}
            ELSE ResolveSeenLastOnly(repositoryIDs, SubSeq(items, 1, Len(items) - 1))

\* The loop with ok ignored (repoID, _ := m.repositoryIDs[repo]): an identifier
\* the map does not hold resolves to the zero value, index 0.
RECURSIVE ResolveSeenZeroValue(_, _)
ResolveSeenZeroValue(repositoryIDs, items) ==
    IF items = <<>> THEN {}
    ELSE LET repo == items[Len(items)]
             rest == ResolveSeenZeroValue(repositoryIDs, SubSeq(items, 1, Len(items) - 1))
         IN IF repo \in DOMAIN repositoryIDs
            THEN rest \cup {repositoryIDs[repo]}
            ELSE rest \cup {0}

\* The loop that returns at the first identifier the map does not hold.
RECURSIVE ResolveSeenStopAtUnknown(_, _)
ResolveSeenStopAtUnknown(repositoryIDs, items) ==
    IF items = <<>> THEN {}
    ELSE LET repo == items[1]
         IN IF repo \in DOMAIN repositoryIDs
            THEN {repositoryIDs[repo]}
                 \cup ResolveSeenStopAtUnknown(repositoryIDs, SubSeq(items, 2, Len(items)))
            ELSE {}

ResolveSeen(repositoryIDs, items) == ResolveLoop(repositoryIDs, items)

\* results allocated with make([]RepositoryScore, len(scores)) and then appended
\* to: len(scores) zero values come first.
BuildResultsPrealloc(repositories, scores) ==
    [k \in 1..Len(scores) |-> [Repository |-> <<>>, Score |-> [num |-> 0, den |-> 1]]]
    \o [k \in 1..Len(scores) |->
        [Repository |-> At(repositories, scores[k].DocumentID), Score |-> scores[k].Score]]

\* results built by prepending: the order of scores reversed.
BuildResultsReversed(repositories, scores) ==
    [k \in 1..Len(scores) |->
        [Repository |-> At(repositories, scores[Len(scores) + 1 - k].DocumentID),
         Score |-> scores[Len(scores) + 1 - k].Score]]

\* results: one RepositoryScore per score, in the order of scores.
BuildResults(repositories, scores) ==
    [k \in 1..Len(scores) |->
        [Repository |-> At(repositories, scores[k].DocumentID), Score |-> scores[k].Score]]

ModelRecommend(m, items, n, ord) ==
    LET seenDocs == ResolveSeen(m.repositoryIDs, items)
        r == VmRecommend(m.vm, seenDocs, n, ord)
    IN IF r.err # NoErr
       THEN [seenDocs |-> seenDocs, scores |-> <<>>, results |-> <<>>, err |-> r.err]
       ELSE [seenDocs |-> seenDocs, scores |-> r.scores,
             results |-> BuildResults(m.repositories, r.scores), err |-> NoErr]

\* ------------------------------------------------------------ state
VARIABLES
    npy,        \* ./data/item_factors.npy
    csv,        \* ./data/items.csv
    pc,         \* "boot", "serving" or "panicked"
    model,      \* the package variable model
    handlers,   \* the patterns registered with http.HandleFunc
    call,       \* the last call of Model.Recommend: its arguments, locals and results
    resp,       \* what the last request to "/" was answered with
    reqs        \* the calls of Model.Recommend under way in concurrent requests to "/"

vars == <<npy, csv, pc, model, handlers, call, resp, reqs>>

NoCall == [done |-> FALSE, items |-> <<>>, n |-> 0, seenDocs |-> {}, scores |-> <<>>,
           results |-> <<>>, err |-> NoErr]

\* The goroutines that serve requests to "/" at the same time.
Reqs == {1, 2}

\* The frame of a call of Model.Recommend that has not begun.
NoFrame == [pc |-> "idle", items |-> <<>>, n |-> 0, i |-> 0, seenDocs |-> {},
            scores |-> <<>>, results |-> <<>>, err |-> NoErr]

NoReqs == [r \in Reqs |-> NoFrame]

\* A finished call: its arguments, and the locals and results r of Model.Recommend.
CallOf(items, n, r) ==
    [done |-> TRUE, items |-> items, n |-> n, seenDocs |-> r.seenDocs,
     scores |-> r.scores, results |-> r.results, err |-> r.err]

\* No call and no request is under way.
Idle == ~ call.done /\ resp = "none"

\* The inputs.
FactorVecs == {<<1, 0>>, <<0, 1>>, <<-1, 0>>}
Ids == {<<"a">>, <<"b">>}
FeedbackIds == Ids \cup {<<"c">>}
FeedbackLists == SeqsUpTo(FeedbackIds, MaxItems)
Counts == (-1)..MaxN

RECURSIVE Flatten(_)
Flatten(ss) == IF ss = <<>> THEN <<>> ELSE Head(ss) \o Flatten(Tail(ss))

Perms(N) == {p \in [1..N -> 0..(N - 1)] : \A i, j \in 1..N : p[i] = p[j] => i = j}

NpyOf(rows, nFactors) ==
    [status |-> "ok", Shape |-> <<Len(rows), nFactors>>, data |-> Flatten(rows)]

\* Stores of every size with every choice of factors, an identifier per row,
\* repeated identifiers included.  The first identifier is "a": a store that
\* begins with "b" is one of these with the two letters exchanged, and the
\* feedback lists are closed under that exchange.
Init ==
    /\ \E N \in 1..MaxRows :
         /\ \E rows \in [1..N -> FactorVecs] : npy = NpyOf(rows, 2)
         /\ \E ls \in {l \in [1..N -> Ids] : l[1] = <<"a">>} :
              csv = [missing |-> FALSE, bytes |-> Flatten([k \in 1..N |-> ls[k] \o <<LF>>])]
    /\ pc = "boot"
    /\ model = Nil
    /\ handlers = {}
    /\ call = NoCall
    /\ resp = "none"
    /\ reqs = NoReqs

\* Every items.csv of at most MaxFileLen bytes, against arrays of every shape.
InitLoad ==
    /\ \/ \E N \in 0..MaxRows, F \in {0, 2} :
            npy = NpyOf([k \in 1..N |-> IF F = 0 THEN <<>> ELSE <<1, 0>>], F)
       \/ \E st \in {"missing", "corrupt"} : npy = [status |-> st, Shape |-> <<>>, data |-> <<>>]
    /\ \/ csv = [missing |-> TRUE, bytes |-> <<>>]
       \/ \E b \in SeqsUpTo(Chars, MaxFileLen) : csv = [missing |-> FALSE, bytes |-> b]
    /\ pc = "boot"
    /\ model = Nil
    /\ handlers = {}
    /\ call = NoCall
    /\ resp = "none"
    /\ reqs = NoReqs

\* ---------------------------------------------------------- actions
\* An init that reports the error of ReadModel and goes on to register the handlers.
InitProcNoPanic ==
    /\ pc = "boot"
    /\ model' = ReadModel(npy, csv).m
    /\ pc' = "serving"
    /\ handlers' = handlers \cup {"/", "/callback"}
    /\ UNCHANGED <<npy, csv, call, resp, reqs>>

\* func init(): the model is read; an error, or no model, panics; the handlers
\* are registered after that.
InitProc ==
    /\ pc = "boot"
    /\ LET r == ReadModel(npy, csv)
       IN /\ model' = r.m
          /\ IF r.err # NoErr \/ r.m.isNil
             THEN pc' = "panicked" /\ handlers' = handlers
             ELSE pc' = "serving" /\ handlers' = handlers \cup {"/", "/callback"}
    /\ UNCHANGED <<npy, csv, call, resp, reqs>>

\* A call model.Recommend(items, n), as the tests make it.
\* A Recommend that deletes each resolved identifier from the map of the Model.
RecommendConsuming(items, n, ord) ==
    /\ pc = "serving"
    /\ ~ model.isNil
    /\ Idle
    /\ call' = CallOf(items, n, ModelRecommend(model, items, n, ord))
    /\ model' = [model EXCEPT !.repositoryIDs =
                   [id \in (DOMAIN model.repositoryIDs) \ {items[k] : k \in 1..Len(items)}
                      |-> model.repositoryIDs[id]]]
    /\ UNCHANGED <<npy, csv, pc, handlers, resp, reqs>>

Recommend(items, n, ord) ==
    /\ pc = "serving"
    /\ ~ model.isNil
    /\ Idle
    /\ call' = CallOf(items, n, ModelRecommend(model, items, n, ord))
    /\ UNCHANGED <<npy, csv, pc, model, handlers, resp, reqs>>

\* func home: GitHub answers with the stars of the user.
Home(stars, ord) ==
    /\ "/" \in handlers
    /\ Idle
    /\ IF model.isNil
       THEN resp' = "model was not initialized" /\ call' = call
       ELSE /\ call' = CallOf(stars, homeN, ModelRecommend(model, stars, homeN, ord))
            /\ resp' = IF call'.err # NoErr THEN "Failed" ELSE "recommendations"
    /\ UNCHANGED <<npy, csv, pc, model, handlers, reqs>>

\* func home: the user is not authenticated, or GitHub fails.
HomeErr ==
    /\ "/" \in handlers
    /\ Idle
    /\ resp' = "home"
    /\ UNCHANGED <<npy, csv, pc, model, handlers, call, reqs>>

\* The call, or the request, returns: its locals are gone.
Return ==
    /\ call.done \/ resp # "none"
    /\ call' = NoCall
    /\ resp' = "none"
    /\ UNCHANGED <<npy, csv, pc, model, handlers, reqs>>

\* The documents of the loaded model in the order of their indices.
IndexOrder == [k \in 1..model.vm.nDocs |-> k - 1]

\* The orders in which a request may meet the documents of the loaded model.
ScanOrders == IF model.isNil THEN {} ELSE Perms(model.vm.nDocs)

Next ==
    \/ InitProc
    \/ /\ Idle
       /\ \E ord \in ScanOrders, items \in FeedbackLists, n \in Counts :
            Recommend(items, n, ord)
    \/ /\ Idle
       /\ \E ord \in ScanOrders, stars \in FeedbackLists : Home(stars, ord)
    \/ HomeErr
    \/ Return

Spec == Init /\ [][Next]_vars

\* The load, followed by requests to "/".
NextLoad ==
    \/ InitProc
    \/ /\ Idle /\ pc = "serving"
       /\ \E stars \in FeedbackLists : Home(stars, IndexOrder)
    \/ HomeErr
    \/ Return

SpecLoad == InitLoad /\ [][NextLoad]_vars

\* ------------------------------------------------- the store of four
\* The array of four items on the two axes, read with every naming of its
\* rows by one or two letters.
ExampleRows == <<<<1, 0>>, <<0, 1>>, <<-1, 0>>, <<0, -1>>>>

ExampleNames == Ids \cup {<<"a", "b">>, <<"b", "a">>}

InitExample ==
    /\ npy = NpyOf(ExampleRows, 2)
    /\ \E ls \in {l \in [1..Len(ExampleRows) -> ExampleNames] : l[1] = <<"a">>} :
         csv = [missing |-> FALSE,
                bytes |-> Flatten([k \in 1..Len(ExampleRows) |-> ls[k] \o <<LF>>])]
    /\ pc = "boot"
    /\ model = Nil
    /\ handlers = {}
    /\ call = NoCall
    /\ resp = "none"
    /\ reqs = NoReqs

SpecExample == InitExample /\ [][Next]_vars

\* ------------------------------------------------ concurrent requests
\* net/http serves each request to "/" in a goroutine of its own; every one of
\* them calls Recommend on the one Model of the package.  A call runs in steps:
\* it makes seenDocs, resolves its items one at a time, then ranks and builds
\* its results; the steps of different calls interleave in any order.

\* The call whose frame holds the seenDocs that call r works on.  A map shared
\* by the calls (a package variable, or a field of the Model):
SeenOwnerShared(r) == 1

\* seenDocs := map[int]bool{} makes a map for each call.
SeenOwner(r) == r

\* Row k and identifier k of the stores of the concurrent runs.
ConcRow(k) == IF k % 2 = 1 THEN <<1, 0>> ELSE <<0, 1>>

ConcId(k) == IF k % 2 = 1 THEN <<"a">> ELSE <<"b">>

InitConc ==
    /\ \E N \in 1..MaxRows :
         /\ npy = NpyOf([k \in 1..N |-> ConcRow(k)], 2)
         /\ csv = [missing |-> FALSE, bytes |-> Flatten([k \in 1..N |-> ConcId(k) \o <<LF>>])]
    /\ pc = "boot"
    /\ model = Nil
    /\ handlers = {}
    /\ call = NoCall
    /\ resp = "none"
    /\ reqs = NoReqs

\* home calls model.Recommend(stars, 10); the call makes its seenDocs.
Begin(r, stars) ==
    /\ "/" \in handlers
    /\ ~ model.isNil
    /\ reqs[r].pc = "idle"
    /\ reqs' = [reqs EXCEPT ![r] = [NoFrame EXCEPT !.pc = "resolve", !.items = stars, !.n = homeN],
                            ![SeenOwner(r)].seenDocs = {}]
    /\ UNCHANGED <<npy, csv, pc, model, handlers, call, resp>>

\* One turn of the loop over items.
ResolveStep(r) ==
    /\ reqs[r].pc = "resolve"
    /\ reqs[r].i < Len(reqs[r].items)
    /\ LET repo == At(reqs[r].items, reqs[r].i)
           seen == reqs[SeenOwner(r)].seenDocs
       IN reqs' = [reqs EXCEPT ![r].i = @ + 1,
                               ![SeenOwner(r)].seenDocs =
                                   IF repo \in DOMAIN model.repositoryIDs
                                   THEN seen \cup {model.repositoryIDs[repo]}
                                   ELSE seen]
    /\ UNCHANGED <<npy, csv, pc, model, handlers, call, resp>>

\* The loop is over: the call ranks, builds its results and returns them.
Rank(r, ord) ==
    /\ reqs[r].pc = "resolve"
    /\ reqs[r].i = Len(reqs[r].items)
    /\ LET v == VmRecommend(model.vm, reqs[SeenOwner(r)].seenDocs, reqs[r].n, ord)
       IN reqs' = [reqs EXCEPT ![r].pc = "done",
                               ![r].scores = v.scores,
                               ![r].results = IF v.err # NoErr THEN <<>>
                                              ELSE BuildResults(model.repositories, v.scores),
                               ![r].err = v.err]
    /\ UNCHANGED <<npy, csv, pc, model, handlers, call, resp>>

\* home has written its response: the frame of the call is gone.
Finish(r) ==
    /\ reqs[r].pc = "done"
    /\ reqs' = [reqs EXCEPT ![r] = NoFrame]
    /\ UNCHANGED <<npy, csv, pc, model, handlers, call, resp>>

NextConc ==
    \/ InitProc
    \/ \E r \in Reqs :
          \/ /\ reqs[r].pc = "idle"
             /\ \E stars \in FeedbackLists : Begin(r, stars)
          \/ ResolveStep(r)
          \/ /\ reqs[r].pc = "resolve"
             /\ \E ord \in ScanOrders : Rank(r, ord)
          \/ Finish(r)

SpecConc == InitConc /\ [][NextConc]_vars

\* ----------------------------------------------------------- claims
\* The feedback set S of a call: the indices the map gives for the items it holds.
FeedbackSet(m, items) ==
    {m.repositoryIDs[items[k]] : k \in {j \in 1..Len(items) : items[j] \in DOMAIN m.repositoryIDs}}

\* The number N of loaded items.
Size(m) == Len(m.repositories)

\* The candidates of a call: the indices outside S.
Candidates(m, items) == (0..(Size(m) - 1)) \ FeedbackSet(m, items)

\* The score of item i for the feedback set S, as a numerator over the
\* denominator shared by the request.
ScoreNum(m, S, i) == ScoreOf(m.vm, userVector(m.vm, S), i).num

CallOK == call.done /\ call.err = NoErr

\* C1: no item whose index is in the resolved feedback set S of a call is in
\* the result of that call, and every result carries the identifier of the
\* item that was ranked.
C1_FeedbackExcluded ==
    CallOK =>
        /\ Len(call.results) = Len(call.scores)
        /\ \A k \in 1..Len(call.scores) :
             /\ call.scores[k].DocumentID \notin FeedbackSet(model, call.items)
             /\ call.results[k].Repository
                  = At(model.repositories, call.scores[k].DocumentID)

\* A call with two feedback items, resolved to two indices, of which an item
\* that is not one of them was returned while more had been asked for.
C1_Witness ==
    /\ CallOK
    /\ Cardinality(FeedbackSet(model, call.items)) = 2
    /\ Len(call.results) >= 1
    /\ Len(call.results) < call.n

C3_RankedWithTieBreak ==
    CallOK =>
        LET S == FeedbackSet(model, call.items)
            chosen == {call.scores[k].DocumentID : k \in 1..Len(call.scores)}
        IN /\ Len(call.results) = Len(call.scores)
           /\ \A k \in 1..Len(call.results) :
                /\ call.scores[k].DocumentID \in Candidates(model, call.items)
                /\ call.results[k].Score.num
                     = ScoreNum(model, S, call.scores[k].DocumentID)
                /\ call.results[k].Repository
                     = At(model.repositories, call.scores[k].DocumentID)
           /\ \A k \in 1..(Len(call.results) - 1) :
                \/ call.results[k].Score.num > call.results[k + 1].Score.num
                \/ /\ call.results[k].Score.num = call.results[k + 1].Score.num
                   /\ call.scores[k].DocumentID < call.scores[k + 1].DocumentID
           /\ \A i \in chosen, j \in Candidates(model, call.items) \ chosen :
                \/ ScoreNum(model, S, i) > ScoreNum(model, S, j)
                \/ ScoreNum(model, S, i) = ScoreNum(model, S, j) /\ i < j

\* A call in which a tie was decided: a candidate left out has the score of
\* the last one selected, and the scores of the result are not all equal.
C3_Witness ==
    /\ CallOK
    /\ Len(call.scores) >= 1
    /\ LET S == FeedbackSet(model, call.items)
           chosen == {call.scores[k].DocumentID : k \in 1..Len(call.scores)}
       IN \E j \in Candidates(model, call.items) \ chosen :
            /\ ScoreNum(model, S, j) = call.scores[Len(call.scores)].Score.num
            /\ ScoreNum(model, S, j) # 0

\* What a call returns: its results and its error.
Outcome(r) == <<r.results, r.err>>

\* C4: a call, in whatever order it met the documents, returns what the call
\* with the same items and the same n returns that meets them in the order of
\* their indices: any two calls with the same arguments return the same.
C4_Deterministic ==
    call.done =>
        Outcome(ModelRecommend(model, call.items, call.n, IndexOrder)) = Outcome(call)

\* A call that had to choose between candidates of equal score.
C4_Witness ==
    /\ CallOK
    /\ Len(call.results) >= 1
    /\ LET S == FeedbackSet(model, call.items)
       IN \E i, j \in Candidates(model, call.items) :
            /\ i # j
            /\ ScoreNum(model, S, i) = ScoreNum(model, S, j)
            /\ i \in {call.scores[k].DocumentID : k \in 1..Len(call.scores)}
            /\ j \notin {call.scores[k].DocumentID : k \in 1..Len(call.scores)}

\* The number of lines of a file: its newlines, and the unterminated rest if
\* there is one.
NumLines(buf) ==
    Cardinality({j \in 1..Len(buf) : buf[j] = LF})
    + (IF Len(buf) > 0 /\ buf[Len(buf)] # LF THEN 1 ELSE 0)

Loaded == pc = "serving"

\* C5: ReadModel does not succeed unless items.csv has exactly as many lines
\* as the array has rows.
C5_LineCountMustMatch ==
    Loaded => NumLines(csv.bytes) = npy.Shape[1]

\* The greatest index at which the slice holds the identifier of index i.
LastIndexOf(repositories, i) ==
    CHOOSE j \in 0..(Len(repositories) - 1) :
        /\ At(repositories, j) = At(repositories, i)
        /\ \A l \in 0..(Len(repositories) - 1) :
             At(repositories, l) = At(repositories, i) => l <= j

Resolvable(m, items) == SelectSeq(items, LAMBDA x : x \in DOMAIN m.repositoryIDs)

\* C7: identifiers the Store does not hold are dropped: the call returns the
\* results, and the error if any, of the call without them.
C7_UnresolvedDropped ==
    call.done =>
        Outcome(ModelRecommend(model, Resolvable(model, call.items), call.n, IndexOrder))
          = Outcome(call)

\* A successful call with an identifier the Store does not hold before one it holds.
C7_Witness ==
    /\ CallOK
    /\ Len(call.items) = 2
    /\ call.items[1] \notin DOMAIN model.repositoryIDs
    /\ call.items[2] \in DOMAIN model.repositoryIDs
    /\ Len(call.results) >= 1

C9_NonPositiveCount ==
    (call.done /\ call.n <= 0) => call.err = NoErr /\ call.results = <<>>

\* A call with a negative n and an empty feedback set.
C9_Witness ==
    /\ call.done
    /\ call.n < 0
    /\ FeedbackSet(model, call.items) = {}
    /\ call.results = <<>>

\* What ReadModel returns for the files of the state.
LoadResult == ReadModel(npy, csv)

\* A Model as ReadModel builds it from the whole of its input.
Complete(m) ==
    /\ ~ m.isNil
    /\ ~ m.vm.isNil
    /\ m.vm.nDocs = npy.Shape[1]
    /\ Len(m.repositories) = npy.Shape[1]
    /\ \A i \in 0..(npy.Shape[1] - 1) : At(m.repositories, i) \in DOMAIN m.repositoryIDs

\* C10: ReadModel returns a Model or an error, never both; until init has
\* loaded the model no handler is registered and no request is answered; an
\* error of ReadModel panics with no handler registered; and a request is
\* answered only from the complete Model that the one load returned.
C10_LoadedBeforeServing ==
    /\ LoadResult.m.isNil # (LoadResult.err = NoErr)
    /\ pc = "boot" => handlers = {} /\ resp = "none" /\ ~ call.done /\ model.isNil
    /\ pc = "panicked" =>
         /\ LoadResult.err # NoErr
         /\ model.isNil /\ handlers = {} /\ resp = "none" /\ ~ call.done
    /\ pc = "serving" =>
         /\ LoadResult.err = NoErr
         /\ model = LoadResult.m
         /\ Complete(model)
    /\ (handlers # {} \/ resp # "none" \/ call.done) => pc = "serving"
    /\ resp # "model was not initialized"

\* An init that panicked on the second line of items.csv, the first one read.
C10_Witness ==
    /\ pc = "panicked"
    /\ npy.status = "ok"
    /\ npy.Shape[1] >= 2
    /\ ~ csv.missing
    /\ ReadString(csv.bytes, 0).err = NoErr
    /\ LoadResult.err = "Unable to read line of file"

\* C11: a call of Model.Recommend, failed or not, leaves the loaded Model
\* (repositories, repositoryIDs and the vector model) as it was, so whatever
\* calls came before it, a finished call holds the result the freshly loaded
\* Model gives for its arguments.
C11_ModelUnchanged ==
    /\ [](call.done =>
            Outcome(call) = Outcome(ModelRecommend(LoadResult.m, call.items, call.n, IndexOrder)))
    /\ [][pc = "serving" => model' = model /\ npy' = npy /\ csv' = csv]_vars

\* A call that failed has returned and the Model is the one that was loaded.
C11_Witness ==
    /\ call.done
    /\ call.err # NoErr
    /\ Len(call.items) > 0
    /\ model = LoadResult.m

\* C12: under every interleaving of the steps of concurrent calls of
\* Model.Recommend on the shared Model, the seenDocs of a call holds what its
\* own items resolved to so far and nothing of another call, and a finished
\* call holds exactly the result it gives when it runs alone.
C12_CallsIsolated ==
    \A r \in Reqs :
        /\ reqs[r].pc # "idle" =>
              reqs[r].seenDocs =
                  ResolveSeen(model.repositoryIDs, SubSeq(reqs[r].items, 1, reqs[r].i))
        /\ reqs[r].pc = "done" =>
              Outcome(reqs[r]) =
                  Outcome(ModelRecommend(model, reqs[r].items, reqs[r].n, IndexOrder))

\* Two calls under way at once with different feedback sets: one has its
\* results while the other is in the middle of its loop.
C12_Witness ==
    \E r, q \in Reqs :
        /\ r # q
        /\ reqs[r].pc = "done" /\ reqs[r].err = NoErr /\ Len(reqs[r].results) > 0
        /\ reqs[q].pc = "resolve" /\ reqs[q].i > 0 /\ reqs[q].i < Len(reqs[q].items)
        /\ reqs[q].seenDocs # {}
        /\ reqs[q].seenDocs # reqs[r].seenDocs

\* C13: on the store of the four items [1,0], [0,1], [-1,0], [0,-1], a call
\* with feedback set {0} and n = 3 (c = 3, lambda = 0.001) returns exactly the
\* items 1, 2 and 3, item 0 left out, and item 2 comes last.
C13_FourItemExample ==
    (call.done /\ call.seenDocs = {0} /\ call.n = 3) =>
        /\ call.err = NoErr
        /\ Len(call.scores) = 3
        /\ Len(call.results) = 3
        /\ {call.scores[k].DocumentID : k \in 1..3} = {1, 2, 3}
        /\ call.scores[3].DocumentID = 2
        /\ \A k \in 1..3 :
              call.results[k] = [Repository |-> At(model.repositories, call.scores[k].DocumentID),
                                 Score |-> ScoreOf(model.vm, userVector(model.vm, {0}),
                                                   call.scores[k].DocumentID)]

\* Such a call has returned, on a store whose four items have four names.
C13_Witness ==
    /\ call.done /\ call.seenDocs = {0} /\ call.n = 3
    /\ model.vm.docs = [i \in 0..3 |-> ExampleRows[i + 1]]
    /\ model.vm.c = confidence /\ model.vm.lambdaMilli = regularizationMilli
    /\ Cardinality({At(model.repositories, i) : i \in 0..3}) = 4
    /\ Len(call.results) = 3

\* C14: no identifier returned by a call of Model.Recommend equals an
\* identifier of its feedback list that is in the Store: a caller is never
\* recommended a repository under a name they passed in as already seen.
C14_NoSuppliedIdentifierReturned ==
    CallOK =>
        \A k \in 1..Len(call.results), j \in 1..Len(call.items) :
            call.items[j] \in DOMAIN model.repositoryIDs =>
                call.results[k].Repository # call.items[j]

====
